---- MODULE Spec2Model ----
(***************************************************************************)
(* Resumable downloader (src/src/downloader.rs).                           *)
(*                                                                         *)
(* Downloaders that target the same final_path share one directory with    *)
(* three names: final_path, temp_path and lock_path.  Every filesystem     *)
(* call and every await of the code is one step of one Downloader, so the  *)
(* steps of several Downloaders interleave as those of several tasks or    *)
(* processes do.  Files are inodes: a name can be renamed or unlinked      *)
(* while another Downloader keeps the file open.                           *)
(*                                                                         *)
(* Two further parts stand beside it, each with a specification of its own:*)
(* the naming of temp_path (Downloader::temp_path) and the terminal        *)
(* progress renderer (src/src/progress.rs), whose register and update are  *)
(* called by concurrent tasks.                                             *)
(***************************************************************************)
EXTENDS Integers, Sequences, FiniteSets, TLC

\* ------------------------------------------------------------------ bounds
RemoteLen == 2          \* bytes of the remote resource
MaxInvocations == 3     \* download() calls in one behaviour
MaxNameLen == 3         \* characters of an output_path file name
MaxTracks == 2          \* register() calls on one ProgressManager
MaxUpdates == 2         \* update() calls on one ProgressManager
TermWidth == 3          \* columns of the terminal, as size() reports them

\* ------------------------------------------------------- program constants
MAX_RETRIES == 5

\* The two Downloaders of the test that share one output_path.
Procs == {1, 2}

\* The remote resource: RemoteLen distinct bytes.
Remote == [i \in 1..RemoteLen |-> i]

\* Inode numbers: three names and two open files per Downloader.
InoIds == 1..(3 + 2 * Cardinality(Procs))

VARIABLES
    dir,          \* [final, temp, lock] -> inode, 0 when the name is absent
    data,         \* inode -> content
    flock,        \* inode -> Downloader holding the exclusive advisory lock, 0 if none
    serverSized,  \* the server's probe response carries a parseable size
    sequential,   \* only Downloader 1 runs (consecutive invocations)
    invLeft,      \* download() calls that may still be made
    pc,           \* position of each Downloader
    attempt,      \* loop variable of download()
    remote_size,  \* should_skip_download: probed size
    existing_len, \* try_download: existing_len
    body,         \* response bytes not yet delivered
    lock_file,    \* try_download: inode of the open lock file, 0 if none
    file,         \* try_download: inode of the open data file, 0 if none
    res,          \* value try_download is returning
    result,       \* what the last download() call returned
    via,          \* the path the last attempt took
    probes,       \* probe requests sent by the current attempt
    requests,     \* transfer requests sent by the current attempt
    appended,     \* bytes appended by the current download() call
    sleeps,       \* delays slept by the current download() call, in seconds
    stale         \* the current attempt found final_path and temp_path both present

fsVars == <<dir, data, flock>>
envVars == <<serverSized, sequential, invLeft>>
locVars == <<attempt, remote_size, existing_len, body, lock_file, file, res>>
obsVars == <<result, via, probes, requests, appended, sleeps, stale>>
obsLocal == <<via, probes, requests, sleeps, stale>>
downloaderVars == <<dir, data, flock, serverSized, sequential, invLeft, pc,
                    attempt, remote_size, existing_len, body, lock_file, file, res,
                    result, via, probes, requests, appended, sleeps, stale>>

VARIABLES
    output_path,  \* Downloader::output_path: the file name of final_path
    staging       \* what temp_path() returned, <<>> before it is called

pathVars == <<output_path, staging>>

VARIABLES
    state_lines,  \* ProgressState::lines
    state_mutex,  \* task holding ProgressManager::inner, 0 if none
    buf_lines,    \* LineBufferInner::lines
    buf_mutex,    \* task holding LineBuffer::inner, 0 if none
    rows,         \* terminal: the text of each row, counted from the first track's row
    cursor,       \* terminal: the row the cursor is on
    wrap,         \* terminal: auto-wrap is enabled
    writer,       \* the task that wrote to stdout last, 0 if none did
    tpc,          \* position of each task in register() / update()
    id,           \* register: id
    new_total,    \* register: new_total
    diff,         \* resize: diff
    printed,      \* resize: newlines written by the loop so far
    line,         \* update: line
    total,        \* flush_line: total
    up,           \* safe_update: up
    final_text,   \* safe_update: final_text
    allocated,    \* the ids register() took, in the order of allocation
    updatesLeft   \* update() calls that may still be made

termVars == <<rows, cursor, wrap, writer>>
regVars == <<id, new_total, diff, printed>>
updVars == <<line, total, up, final_text>>
taskVars == <<tpc, regVars, updVars>>
rendererVars == <<state_lines, state_mutex, buf_lines, buf_mutex, termVars, taskVars,
                  allocated, updatesLeft>>

vars == <<downloaderVars, pathVars, rendererVars>>

\* ---------------------------------------------------------------- helpers
Exists(name) == dir[name] # 0

FileLen(name) == Len(data[dir[name]])

Content(name) == data[dir[name]]

IsPrefix(s, t) == Len(s) <= Len(t) /\ \A i \in 1..Len(s) : s[i] = t[i]

Suffix(s, n) == [i \in 1..(Len(s) - n) |-> s[i + n]]

Referenced3(r) == {r[k] : k \in 1..Len(r)} \ {0}

\* Inodes that a name or an open file still refers to.
Referenced(d, lf, f) ==
    {d[n] : n \in DOMAIN d} \cup {lf[p] : p \in Procs} \cup {f[p] : p \in Procs}

\* An inode number that is not in use.
FreshIno == CHOOSE i \in InoIds :
    /\ i \notin Referenced(dir, lock_file, file)
    /\ \A j \in InoIds : j \notin Referenced(dir, lock_file, file) => i <= j

\* Inode numbers carry no meaning: after each step the inodes in use are
\* numbered in the order of their first reference in Refs.
Refs(d, lf, f) == <<d.final, d.temp, d.lock, lf[1], f[1], lf[2], f[2]>>

FirstRef(r, i) == CHOOSE k \in 1..Len(r) : r[k] = i /\ \A j \in 1..(k - 1) : r[j] # i

Number(r, i) ==
    IF i = 0 THEN 0 ELSE Cardinality({r[j] : j \in 1..FirstRef(r, i)} \ {0})

Numbered(r, n) == CHOOSE i \in InoIds : i \in Referenced3(r) /\ Number(r, i) = n

\* The filesystem after a step: an inode nobody refers to is gone, and a lock
\* goes with the open file of its holder.
SetFs(d, dt, fl, lf, f) ==
    LET r == Refs(d, lf, f)
        used == Cardinality(Referenced3(r))
    IN /\ dir' = [n \in DOMAIN d |-> Number(r, d[n])]
       /\ lock_file' = [p \in Procs |-> Number(r, lf[p])]
       /\ file' = [p \in Procs |-> Number(r, f[p])]
       /\ data' = [n \in InoIds |-> IF n <= used THEN dt[Numbered(r, n)] ELSE <<>>]
       /\ flock' = [n \in InoIds |->
                       IF n <= used
                       THEN LET i == Numbered(r, n)
                            IN IF fl[i] # 0 /\ lf[fl[i]] = i THEN fl[i] ELSE 0
                       ELSE 0]

\* A lone Downloader may find final_path left incomplete by an earlier
\* transfer of the same resource: here, one byte short.
Leftover == SubSeq(Remote, 1, RemoteLen - 1)

DownloaderInit ==
    /\ serverSized \in BOOLEAN
    /\ sequential \in BOOLEAN
    /\ \/ /\ dir = [final |-> 0, temp |-> 0, lock |-> 0]
          /\ data = [i \in InoIds |-> <<>>]
       \/ /\ sequential
          /\ dir = [final |-> 1, temp |-> 0, lock |-> 0]
          /\ data = [i \in InoIds |-> IF i = 1 THEN Leftover ELSE <<>>]
    /\ flock = [i \in InoIds |-> 0]
    /\ invLeft = MaxInvocations
    /\ pc = [p \in Procs |-> "idle"]
    /\ attempt = [p \in Procs |-> 0]
    /\ remote_size = [p \in Procs |-> 0]
    /\ existing_len = [p \in Procs |-> 0]
    /\ body = [p \in Procs |-> <<>>]
    /\ lock_file = [p \in Procs |-> 0]
    /\ file = [p \in Procs |-> 0]
    /\ res = [p \in Procs |-> "Ok"]
    /\ result = [p \in Procs |-> "none"]
    /\ via = [p \in Procs |-> "none"]
    /\ probes = [p \in Procs |-> 0]
    /\ requests = [p \in Procs |-> 0]
    /\ appended = [p \in Procs |-> 0]
    /\ sleeps = [p \in Procs |-> <<>>]
    /\ stale = [p \in Procs |-> FALSE]

\* The characters of a file name: two letters and the dot.
Chars == {"a", "b", "."}

\* The file names output_path can end in ("." and ".." name no file).
FileNames ==
    UNION {[1..n -> Chars] : n \in 1..MaxNameLen} \ {<<".">>, <<".", ".">>}

\* The destination the Downloaders of the test share (100MB.bin).
SharedName == <<"a", ".", "b">>

\* The Downloaders are constructed on the shared destination; temp_path() has
\* not been called.
PathInit ==
    /\ output_path = [p \in Procs |-> SharedName]
    /\ staging = [p \in Procs |-> <<>>]

\* The tasks that share one ProgressManager: one per Downloader.
Tasks == Procs

\* The rows of the terminal below the place where the ProgressManager started.
ScreenRows == 0..(2 * MaxTracks + 1)

\* ProgressManager::new(): LineBuffer::new(0) prints nothing, no track.
RendererNew ==
    /\ state_lines = 0
    /\ state_mutex = 0
    /\ buf_lines = <<>>
    /\ buf_mutex = 0
    /\ rows = [r \in ScreenRows |-> <<>>]
    /\ cursor = 0
    /\ wrap = TRUE
    /\ writer = 0
    /\ tpc = [t \in Tasks |-> "idle"]
    /\ id = [t \in Tasks |-> 0]
    /\ new_total = [t \in Tasks |-> 0]
    /\ diff = [t \in Tasks |-> 0]
    /\ printed = [t \in Tasks |-> 0]
    /\ line = [t \in Tasks |-> 0]
    /\ total = [t \in Tasks |-> 0]
    /\ up = [t \in Tasks |-> 0]
    /\ final_text = [t \in Tasks |-> <<>>]
    /\ allocated = <<>>
    /\ updatesLeft = MaxUpdates

Init == DownloaderInit /\ PathInit /\ RendererNew


\* ------------------------------------------------------------ environment
\* The environment injects a fault: a transport error, a failed write or a
\* cancellation.  A lone Downloader can meet any number of them; two concurrent
\* Downloaders fail only on what they do to each other's files.
Fault == sequential

\* probe_remote_size: the total of Content-Range or else Content-Length; a
\* response with neither is UnsupportedServer.
ProbeResult == IF serverSized THEN "Size" ELSE "UnsupportedServer"

\* The server's answer to a transfer request for "bytes=<len>-" (no Range
\* header when len = 0): 416 when the range starts at or after the end.
RangeNotSatisfiable(len) == len > 0 /\ len >= RemoteLen

ResponseBody(len) == Suffix(Remote, len)

\* ------------------------------------------------------------- download()
\* try_download hands `r` to download(): the step after is AttemptReturn.
Returning(p, r, how) ==
    /\ pc' = [pc EXCEPT ![p] = "ret"]
    /\ res' = [res EXCEPT ![p] = r]
    /\ via' = [via EXCEPT ![p] = how]

\* download() is called.
Start(p) ==
    /\ UNCHANGED <<pathVars, rendererVars>>
    /\ pc[p] = "idle"
    /\ invLeft > 0
    /\ sequential => p = 1
    \* Downloaders are interchangeable: the first to call is number 1.
    /\ p = 1 \/ pc[1] # "idle" \/ result[1] # "none"
    /\ invLeft' = invLeft - 1
    /\ pc' = [pc EXCEPT ![p] = "skip_final"]
    /\ attempt' = [attempt EXCEPT ![p] = 0]
    /\ result' = [result EXCEPT ![p] = "none"]
    /\ via' = [via EXCEPT ![p] = "none"]
    /\ probes' = [probes EXCEPT ![p] = 0]
    /\ requests' = [requests EXCEPT ![p] = 0]
    /\ appended' = [appended EXCEPT ![p] = 0]
    /\ sleeps' = [sleeps EXCEPT ![p] = <<>>]
    /\ stale' = [stale EXCEPT ![p] = FALSE]
    /\ UNCHANGED <<fsVars, serverSized, sequential, remote_size,
                   existing_len, body, lock_file, file, res>>

\* should_skip_download: final_path.exists()
SkipFinalExists(p) ==
    /\ UNCHANGED <<pathVars, rendererVars>>
    /\ pc[p] = "skip_final"
    /\ pc' = [pc EXCEPT ![p] = IF Exists("final") THEN "skip_temp" ELSE "measure"]
    /\ UNCHANGED <<fsVars, envVars, locVars, obsVars>>

\* Variant of StalePair: temp_path is deleted as stale and final_path is then
\* handled as if it stood alone.
StalePairDeletesTemp(p) ==
    /\ pc' = [pc EXCEPT ![p] = "probe"]
    /\ stale' = [stale EXCEPT ![p] = TRUE]
    /\ dir' = [dir EXCEPT !.temp = 0]
    /\ UNCHANGED <<data, flock>>

\* should_skip_download, temp_path exists next to final_path: "don't skip",
\* and both files stay as they are.
StalePair(p) ==
    /\ pc' = [pc EXCEPT ![p] = "measure"]
    /\ stale' = [stale EXCEPT ![p] = TRUE]
    /\ UNCHANGED fsVars

\* should_skip_download: temp_path.exists()
SkipTempExists(p) ==
    /\ UNCHANGED <<pathVars, rendererVars>>
    /\ pc[p] = "skip_temp"
    /\ IF Exists("temp")
       THEN StalePair(p)
       ELSE /\ pc' = [pc EXCEPT ![p] = "probe"]
            /\ UNCHANGED <<fsVars, stale>>
    /\ UNCHANGED <<envVars, locVars, result, via, probes, requests, appended, sleeps>>

\* Variant of ProbeUnsupported: UnsupportedServer leaves try_download.
ProbeUnsupportedReturns(p) ==
    /\ Returning(p, "UnsupportedServer", "unsupported")
    /\ UNCHANGED remote_size

\* should_skip_download, the probe failed with UnsupportedServer: the size
\* cannot be verified, "so we won't skip".
ProbeUnsupported(p) ==
    /\ pc' = [pc EXCEPT ![p] = "measure"]
    /\ via' = [via EXCEPT ![p] = "unsupported"]
    /\ UNCHANGED <<res, remote_size>>

\* should_skip_download: probe_remote_size(&client).await
Probe(p) ==
    /\ UNCHANGED <<pathVars, rendererVars>>
    /\ pc[p] = "probe"
    /\ probes' = [probes EXCEPT ![p] = @ + 1]
    /\ \/ /\ Fault
          /\ Returning(p, "Http", "error")
          /\ UNCHANGED remote_size
       \/ IF ProbeResult = "Size"
          THEN /\ remote_size' = [remote_size EXCEPT ![p] = RemoteLen]
               /\ pc' = [pc EXCEPT ![p] = "skip_meta"]
               /\ UNCHANGED <<res, via>>
          ELSE ProbeUnsupported(p)
    /\ UNCHANGED <<fsVars, serverSized, sequential, invLeft, attempt, existing_len,
                   body, lock_file, file, result, requests, appended, sleeps, stale>>

\* Variant of Complete: a shorter file passes for complete.
CompleteOrShorter(local_size, size) == local_size <= size

\* should_skip_download: the file is complete when its length is the probed size.
Complete(local_size, size) == local_size = size

\* should_skip_download: std::fs::metadata(final_path) and the comparison
SkipMetadata(p) ==
    /\ UNCHANGED <<pathVars, rendererVars>>
    /\ pc[p] = "skip_meta"
    /\ IF ~Exists("final")
       THEN /\ pc' = [pc EXCEPT ![p] = "measure"]
            /\ UNCHANGED <<res, via>>
       ELSE IF Complete(FileLen("final"), remote_size[p])
       THEN Returning(p, "Ok", "skip")
       ELSE /\ pc' = [pc EXCEPT ![p] = "skip_rename"]
            /\ UNCHANGED <<res, via>>
    /\ UNCHANGED <<fsVars, envVars, attempt, remote_size, existing_len, body,
                   lock_file, file, result, probes, requests, appended, sleeps, stale>>

\* should_skip_download: std::fs::rename(final_path, temp_path)?
SkipRename(p) ==
    /\ UNCHANGED <<pathVars, rendererVars>>
    /\ pc[p] = "skip_rename"
    /\ IF Exists("final")
       THEN /\ SetFs([dir EXCEPT !.temp = dir.final, !.final = 0], data, flock,
                     lock_file, file)
            /\ pc' = [pc EXCEPT ![p] = "measure"]
            /\ UNCHANGED <<res, via>>
       ELSE /\ Returning(p, "Io", "error")
            /\ UNCHANGED <<fsVars, lock_file, file>>
    /\ UNCHANGED <<envVars, attempt, remote_size, existing_len, body,
                   result, probes, requests, appended, sleeps, stale>>

\* try_download: temp_path.metadata().map(|meta| meta.len()).unwrap_or(0)
Measure(p) ==
    /\ UNCHANGED <<pathVars, rendererVars>>
    /\ pc[p] = "measure"
    /\ existing_len' = [existing_len EXCEPT ![p] =
                           IF Exists("temp") THEN FileLen("temp") ELSE 0]
    /\ pc' = [pc EXCEPT ![p] = "send"]
    /\ UNCHANGED <<fsVars, envVars, attempt, remote_size, body, lock_file, file, res,
                   obsVars>>

\* try_download: request.send().await, the 416 test and error_for_status
Send(p) ==
    /\ UNCHANGED <<pathVars, rendererVars>>
    /\ pc[p] = "send"
    /\ requests' = [requests EXCEPT ![p] = @ + 1]
    /\ \/ /\ Fault
          /\ Returning(p, "Http", "error")
          /\ UNCHANGED body
       \/ IF RangeNotSatisfiable(existing_len[p])
          THEN /\ Returning(p, "RangeNotSatisfiable", "rns")
               /\ UNCHANGED body
          ELSE /\ body' = [body EXCEPT ![p] = ResponseBody(existing_len[p])]
               /\ pc' = [pc EXCEPT ![p] = "create_lock"]
               /\ UNCHANGED <<res, via>>
    /\ UNCHANGED <<fsVars, serverSized, sequential, invLeft, attempt, remote_size,
                   existing_len, lock_file, file, result, probes, appended, sleeps,
                   stale>>


\* Variant of LockFree: try_lock_exclusive succeeds on any file.
LockAlwaysFree(ino) == TRUE

\* try_lock_exclusive succeeds on a file nobody holds locked.
LockFree(ino) == flock[ino] = 0

\* create_lock_file: OpenOptions::new().create(true).write(true).open(&lock_path)
CreateLock(p) ==
    /\ UNCHANGED <<pathVars, rendererVars>>
    /\ pc[p] = "create_lock"
    /\ LET ino == IF Exists("lock") THEN dir.lock ELSE FreshIno
       IN SetFs([dir EXCEPT !.lock = ino], data, flock,
                [lock_file EXCEPT ![p] = ino], file)
    /\ pc' = [pc EXCEPT ![p] = "try_lock"]
    /\ UNCHANGED <<envVars, attempt, remote_size, existing_len, body, res, obsVars>>

\* try_download: lock_file.try_lock_exclusive(); contention returns Ok(())
TryLock(p) ==
    /\ UNCHANGED <<pathVars, rendererVars>>
    /\ pc[p] = "try_lock"
    /\ IF LockFree(lock_file[p])
       THEN /\ flock' = [flock EXCEPT ![lock_file[p]] = p]
            /\ pc' = [pc EXCEPT ![p] = "open_temp"]
            /\ UNCHANGED <<res, via>>
       ELSE /\ Returning(p, "Ok", "contended")
            /\ UNCHANGED flock
    /\ UNCHANGED <<dir, data, envVars, attempt, remote_size, existing_len, body,
                   lock_file, file, result, probes, requests, appended, sleeps, stale>>

\* Variant of OpenedForAppend: the file is opened with truncate(true).
OpenedTruncated(content) == <<>>

\* A file opened with append(true) keeps what it holds.
OpenedForAppend(content) == content

\* try_download: OpenOptions::new().create(true).append(true).open(&temp_path)
OpenTemp(p) ==
    /\ UNCHANGED <<pathVars, rendererVars>>
    /\ pc[p] = "open_temp"
    /\ LET ino == IF Exists("temp") THEN dir.temp ELSE FreshIno
       IN SetFs([dir EXCEPT !.temp = ino],
                [data EXCEPT ![ino] = OpenedForAppend(@)], flock,
                lock_file, [file EXCEPT ![p] = ino])
    /\ pc' = [pc EXCEPT ![p] = "stream"]
    /\ UNCHANGED <<envVars, attempt, remote_size, existing_len, body, res, obsVars>>

\* Variant of WriteAppend: the file is written from its start.
WriteFromStart(content, chunk) == chunk

\* write_all on a file opened for append: the chunk goes to the end of the file.
WriteAppend(content, chunk) == content \o chunk

\* download_chunks: stream.next().await delivers a chunk, file.write_all(&chunk)
StreamChunk(p) ==
    /\ UNCHANGED <<pathVars, rendererVars>>
    /\ pc[p] = "stream"
    /\ body[p] # <<>>
    /\ \E k \in 1..Len(body[p]) :
          /\ data' = [data EXCEPT ![file[p]] = WriteAppend(@, SubSeq(body[p], 1, k))]
          /\ body' = [body EXCEPT ![p] = Suffix(@, k)]
          /\ appended' = [appended EXCEPT ![p] = @ + k]
    /\ UNCHANGED <<dir, flock, envVars, pc, attempt, remote_size, existing_len,
                   lock_file, file, res, result, via, probes, requests, sleeps, stale>>

\* download_chunks: `chunk?` fails (transport) or `write_all(..)?` fails (I/O);
\* the data file is closed as download_chunks returns.
StreamFail(p) ==
    /\ UNCHANGED <<pathVars, rendererVars>>
    /\ pc[p] = "stream"
    /\ Fault
    /\ \E e \in {"Http", "Io"} :
          /\ e = "Io" => body[p] # <<>>
          /\ Returning(p, e, "error")
    /\ SetFs(dir, data, flock, lock_file, [file EXCEPT ![p] = 0])
    /\ UNCHANGED <<serverSized, sequential, invLeft, attempt, remote_size,
                   existing_len, body, result, probes, requests, appended, sleeps,
                   stale>>

\* download_chunks: the stream ends, Ok(()); the data file is closed.
StreamEnd(p) ==
    /\ UNCHANGED <<pathVars, rendererVars>>
    /\ pc[p] = "stream"
    /\ body[p] = <<>>
    /\ SetFs(dir, data, flock, lock_file, [file EXCEPT ![p] = 0])
    /\ pc' = [pc EXCEPT ![p] = "finalize_rename"]
    /\ UNCHANGED <<envVars, attempt, remote_size, existing_len, body, res, obsVars>>

\* try_download: std::fs::rename(&temp_path, &self.output_path)?
FinalizeRename(p) ==
    /\ UNCHANGED <<pathVars, rendererVars>>
    /\ pc[p] = "finalize_rename"
    /\ IF Exists("temp")
       THEN /\ SetFs([dir EXCEPT !.final = dir.temp, !.temp = 0], data, flock,
                     lock_file, file)
            /\ pc' = [pc EXCEPT ![p] = "remove_lock"]
            /\ UNCHANGED <<res, via>>
       ELSE /\ Returning(p, "Io", "error")
            /\ UNCHANGED <<fsVars, lock_file, file>>
    /\ UNCHANGED <<envVars, attempt, remote_size, existing_len, body,
                   result, probes, requests, appended, sleeps, stale>>

\* try_download: std::fs::remove_file(self.lock_path())?; Ok(())
RemoveLock(p) ==
    /\ UNCHANGED <<pathVars, rendererVars>>
    /\ pc[p] = "remove_lock"
    /\ IF Exists("lock")
       THEN /\ SetFs([dir EXCEPT !.lock = 0], data, flock, lock_file, file)
            /\ Returning(p, "Ok", "finalized")
       ELSE /\ Returning(p, "Io", "error")
            /\ UNCHANGED <<fsVars, lock_file, file>>
    /\ UNCHANGED <<envVars, attempt, remote_size, existing_len, body,
                   result, probes, requests, appended, sleeps, stale>>

\* Variant of Classify: RangeNotSatisfiable is retried like any other error.
ClassifyRetries416(r) ==
    IF r \in {"Ok", "UnsupportedServer"} THEN "success" ELSE "retry"

\* download(): the arm of the match that takes the value of try_download
Classify(r) ==
    IF r \in {"Ok", "UnsupportedServer"} THEN "success"
    ELSE IF r = "RangeNotSatisfiable" THEN "finalize"
    ELSE "retry"

\* download(): Duration::from_secs(2_u64.pow(attempt as u32))
Delay(n) == 2 ^ n

\* download(): Err(e) if attempt == MAX_RETRIES - 1 => return Err(e)
LastAttempt(n) == n = MAX_RETRIES - 1

\* download() returns `r`; what it counted during the call is forgotten.
Finish(p, r) ==
    /\ pc' = [pc EXCEPT ![p] = "idle"]
    /\ result' = [result EXCEPT ![p] = r]
    /\ attempt' = [attempt EXCEPT ![p] = 0]
    /\ via' = [via EXCEPT ![p] = IF r = "cancelled" THEN "none" ELSE @]
    /\ probes' = [probes EXCEPT ![p] = 0]
    /\ requests' = [requests EXCEPT ![p] = 0]
    /\ sleeps' = [sleeps EXCEPT ![p] = <<>>]
    /\ stale' = [stale EXCEPT ![p] = FALSE]

\* try_download returns: its locals go out of scope, lock_file is dropped, which
\* closes it and releases the lock; then download() matches on the value.
\* Variant of Dropped: the lock file handle outlives the attempt.
KeptOpen(lf, p) == lf

\* try_download returns: its local lock_file is dropped, which closes the
\* handle; closing it releases the lock taken through it.
Dropped(lf, p) == [lf EXCEPT ![p] = 0]

AttemptReturn(p) ==
    /\ UNCHANGED <<pathVars, rendererVars>>
    /\ pc[p] = "ret"
    /\ SetFs(dir, data, flock, Dropped(lock_file, p), file)
    /\ res' = [res EXCEPT ![p] = "Ok"]
    /\ body' = [body EXCEPT ![p] = <<>>]
    /\ existing_len' = [existing_len EXCEPT ![p] = 0]
    /\ remote_size' = [remote_size EXCEPT ![p] = 0]
    /\ CASE Classify(res[p]) = "success" ->
              Finish(p, "ok")
         [] Classify(res[p]) = "finalize" ->
              /\ pc' = [pc EXCEPT ![p] = "rns_exists"]
              /\ UNCHANGED <<attempt, result, obsLocal>>
         [] OTHER ->
              IF LastAttempt(attempt[p])
              THEN Finish(p, "err")
              ELSE /\ pc' = [pc EXCEPT ![p] = "sleep"]
                   /\ sleeps' = [sleeps EXCEPT ![p] = Append(@, Delay(attempt[p]))]
                   /\ UNCHANGED <<attempt, result, via, probes, requests, stale>>
    /\ UNCHANGED <<envVars, appended>>

\* download(), RangeNotSatisfiable arm: temp_path.exists()
RnsExists(p) ==
    /\ UNCHANGED <<pathVars, rendererVars>>
    /\ pc[p] = "rns_exists"
    /\ IF Exists("temp")
       THEN /\ pc' = [pc EXCEPT ![p] = "rns_rename"]
            /\ UNCHANGED <<attempt, result, obsLocal>>
       ELSE Finish(p, "ok")
    /\ UNCHANGED <<fsVars, envVars, remote_size, existing_len, body, lock_file,
                   file, res, appended>>

\* download(), RangeNotSatisfiable arm:
\* let _ = std::fs::rename(&temp_path, &self.output_path); return Ok(())
RnsRename(p) ==
    /\ UNCHANGED <<pathVars, rendererVars>>
    /\ pc[p] = "rns_rename"
    /\ IF Exists("temp")
       THEN SetFs([dir EXCEPT !.final = dir.temp, !.temp = 0], data, flock,
                  lock_file, file)
       ELSE UNCHANGED <<fsVars, lock_file, file>>
    /\ Finish(p, "ok")
    /\ UNCHANGED <<envVars, remote_size, existing_len, body, res, appended>>

\* download(): tokio::time::sleep(delay).await is over; continue
Wake(p) ==
    /\ UNCHANGED <<pathVars, rendererVars>>
    /\ pc[p] = "sleep"
    /\ attempt' = [attempt EXCEPT ![p] = @ + 1]
    /\ pc' = [pc EXCEPT ![p] = "skip_final"]
    /\ stale' = [stale EXCEPT ![p] = FALSE]
    /\ via' = [via EXCEPT ![p] = "none"]
    /\ probes' = [probes EXCEPT ![p] = 0]
    /\ requests' = [requests EXCEPT ![p] = 0]
    /\ UNCHANGED <<fsVars, envVars, remote_size, existing_len, body, lock_file,
                   file, res, result, appended, sleeps>>

\* The places where a Downloader is suspended in an await.
Suspended(p) == pc[p] \in {"probe", "send", "stream", "sleep"}

\* The task is cancelled at a suspension point: the future is dropped, which
\* closes its files; nothing is cleaned up.
Cancel(p) ==
    /\ UNCHANGED <<pathVars, rendererVars>>
    /\ Suspended(p)
    /\ Fault
    /\ SetFs(dir, data, flock, Dropped(lock_file, p), [file EXCEPT ![p] = 0])
    /\ Finish(p, "cancelled")
    /\ body' = [body EXCEPT ![p] = <<>>]
    /\ existing_len' = [existing_len EXCEPT ![p] = 0]
    /\ remote_size' = [remote_size EXCEPT ![p] = 0]
    /\ UNCHANGED <<serverSized, sequential, invLeft, res, appended>>

Next ==
    \E p \in Procs :
        \/ Start(p)
        \/ SkipFinalExists(p)
        \/ SkipTempExists(p)
        \/ Probe(p)
        \/ SkipMetadata(p)
        \/ SkipRename(p)
        \/ Measure(p)
        \/ Send(p)
        \/ CreateLock(p)
        \/ TryLock(p)
        \/ OpenTemp(p)
        \/ StreamChunk(p)
        \/ StreamFail(p)
        \/ StreamEnd(p)
        \/ FinalizeRename(p)
        \/ RemoveLock(p)
        \/ AttemptReturn(p)
        \/ RnsExists(p)
        \/ RnsRename(p)
        \/ Wake(p)
        \/ Cancel(p)

Spec == Init /\ [][Next]_vars

\* A lone Downloader: consecutive download() calls on one destination.
InitSeq == Init /\ sequential

SpecSeq == InitSeq /\ [][Next]_vars


\* ------------------------------------------------------ naming of temp_path
\* The place of the last dot of a file name, 0 when it has none.
LastDot(name) ==
    IF \E i \in 1..Len(name) : name[i] = "."
    THEN CHOOSE i \in 1..Len(name) :
            /\ name[i] = "."
            /\ \A j \in (i + 1)..Len(name) : name[j] # "."
    ELSE 0

\* Path::file_stem: the file name up to its last dot; the whole name when it
\* has no dot, or only a leading one, or is "..".
file_stem(name) ==
    IF name = <<".", ".">> \/ LastDot(name) <= 1
    THEN name
    ELSE SubSeq(name, 1, LastDot(name) - 1)

\* PathBuf::set_extension with a non-empty extension: the name is cut back to
\* its stem, then "." and the extension are added.
set_extension(name, extension) == file_stem(name) \o <<".">> \o extension

\* The extension temp_path() sets.
Part == <<"p", "a", "r", "t">>

\* Downloader::temp_path
temp_path(name) == set_extension(name, Part)

\* No download is going on: one Downloader, empty directory.
DownloaderIdle == DownloaderInit /\ sequential /\ serverSized /\ dir.final = 0

\* A Downloader computes its temp_path.
TempPath(p) ==
    /\ staging[p] = <<>>
    /\ staging' = [staging EXCEPT ![p] = temp_path(output_path[p])]
    /\ UNCHANGED <<downloaderVars, output_path, rendererVars>>

\* Downloaders constructed on any two destinations of one directory; nothing
\* is downloaded.
InitPath ==
    /\ DownloaderIdle
    /\ output_path \in [Procs -> FileNames]
    /\ staging = [p \in Procs |-> <<>>]
    /\ RendererNew

NextPath == \E p \in Procs : TempPath(p)

SpecPath == InitPath /\ [][NextPath]_vars


\* ------------------------------------------------------- progress renderer
\* What a task passes to update(): plain one-line text, short or as wide as
\* the terminal, made of the task's own character.
Texts(t) == {[k \in 1..n |-> t] : n \in {1, TermWidth}}

\* usize::saturating_sub
saturating_sub(a, b) == IF a >= b THEN a - b ELSE 0

\* visible_len: the characters outside ANSI sequences (the texts have none).
visible_len(content) == Len(content)

\* truncate_ansi: the first max_visible visible characters.
truncate_ansi(content, max_visible) ==
    SubSeq(content, 1, IF Len(content) < max_visible THEN Len(content) ELSE max_visible)

\* safe_update: final_text
FinalText(content) ==
    LET safe == saturating_sub(TermWidth, 1)
    IN IF visible_len(content) >= safe THEN truncate_ansi(content, safe) ELSE content

\* Variant of Up: the rows are counted from the first track.
UpFromTop(total_lines, l) == l + 1

\* safe_update: up
Up(total_lines, l) == saturating_sub(total_lines, l)

\* ESC[nA: the cursor goes up n rows (one row for n = 0), not above the top.
CursorUpBy(c, n) == saturating_sub(c, IF n = 0 THEN 1 ELSE n)

\* ESC[nB: the cursor goes down n rows (one row for n = 0), not below the last.
CursorDownBy(c, n) ==
    LET last == 2 * MaxTracks + 1
        to == c + (IF n = 0 THEN 1 ELSE n)
    IN IF to > last THEN last ELSE to

\* Variant of Unlocked: lock() never waits.
AlwaysUnlocked(m) == TRUE

\* Mutex::lock() returns when nobody holds the mutex.
Unlocked(m) == m = 0

\* Variant of Grows: resize grows the storage only when two rows are missing.
GrowsByTwo(new_size, len) == new_size > len + 1

\* resize: new_size > state.lines.len()
Grows(new_size, len) == new_size > len

\* register(): let mut state = self.inner.lock().unwrap()
RegisterLock(t) ==
    /\ tpc[t] = "idle"
    /\ state_lines < MaxTracks
    /\ Unlocked(state_mutex)
    /\ state_mutex' = t
    /\ tpc' = [tpc EXCEPT ![t] = "reg_id"]
    /\ UNCHANGED <<state_lines, buf_lines, buf_mutex, termVars, regVars, updVars,
                   allocated, updatesLeft, downloaderVars, pathVars>>

\* register(): let id = state.lines
RegisterId(t) ==
    /\ tpc[t] = "reg_id"
    /\ id' = [id EXCEPT ![t] = state_lines]
    /\ tpc' = [tpc EXCEPT ![t] = "reg_incr"]
    /\ UNCHANGED <<state_lines, state_mutex, buf_lines, buf_mutex, termVars,
                   new_total, diff, printed, updVars, allocated, updatesLeft,
                   downloaderVars, pathVars>>

\* register(): state.lines += 1; let new_total = state.lines; drop(state)
RegisterIncr(t) ==
    /\ tpc[t] = "reg_incr"
    /\ state_lines' = state_lines + 1
    /\ new_total' = [new_total EXCEPT ![t] = state_lines + 1]
    /\ allocated' = Append(allocated, id[t])
    /\ state_mutex' = 0
    /\ tpc' = [tpc EXCEPT ![t] = "resize_lock"]
    /\ UNCHANGED <<buf_lines, buf_mutex, termVars, id, diff, printed, updVars,
                   updatesLeft, downloaderVars, pathVars>>

\* resize: self.inner.lock(), the test new_size > state.lines.len() and diff
ResizeLock(t) ==
    /\ tpc[t] = "resize_lock"
    /\ Unlocked(buf_mutex)
    /\ buf_mutex' = t
    /\ IF Grows(new_total[t], Len(buf_lines))
       THEN /\ diff' = [diff EXCEPT ![t] = new_total[t] - Len(buf_lines)]
            /\ tpc' = [tpc EXCEPT ![t] = "resize_newline"]
       ELSE /\ tpc' = [tpc EXCEPT ![t] = "reg_ret"]
            /\ UNCHANGED diff
    /\ UNCHANGED <<state_lines, state_mutex, buf_lines, termVars, id, new_total,
                   printed, updVars, allocated, updatesLeft, downloaderVars, pathVars>>

\* resize: writeln!(out), one turn of the loop
ResizeNewline(t) ==
    /\ tpc[t] = "resize_newline"
    /\ printed[t] < diff[t]
    /\ cursor' = CursorDownBy(cursor, 1)
    /\ writer' = t
    /\ printed' = [printed EXCEPT ![t] = @ + 1]
    /\ UNCHANGED <<state_lines, state_mutex, buf_lines, buf_mutex, rows, wrap, tpc,
                   id, new_total, diff, updVars, allocated, updatesLeft,
                   downloaderVars, pathVars>>

\* resize: out.flush(); state.lines.extend((0..diff).map(|_| String::new()))
ResizeExtend(t) ==
    /\ tpc[t] = "resize_newline"
    /\ printed[t] >= diff[t]
    /\ buf_lines' = buf_lines \o [k \in 1..diff[t] |-> <<>>]
    /\ tpc' = [tpc EXCEPT ![t] = "reg_ret"]
    /\ UNCHANGED <<state_lines, state_mutex, buf_mutex, termVars, regVars, updVars,
                   allocated, updatesLeft, downloaderVars, pathVars>>

\* resize returns, which unlocks the storage, and register() returns id
RegisterReturn(t) ==
    /\ tpc[t] = "reg_ret"
    /\ buf_mutex' = 0
    /\ tpc' = [tpc EXCEPT ![t] = "idle"]
    /\ id' = [id EXCEPT ![t] = 0]
    /\ new_total' = [new_total EXCEPT ![t] = 0]
    /\ diff' = [diff EXCEPT ![t] = 0]
    /\ printed' = [printed EXCEPT ![t] = 0]
    /\ UNCHANGED <<state_lines, state_mutex, buf_lines, termVars, updVars,
                   allocated, updatesLeft, downloaderVars, pathVars>>

\* update(line, content): self.buf.set(line, content.to_string()), under the
\* storage's mutex from its lock() to its return
Set(t) ==
    /\ tpc[t] = "idle"
    /\ updatesLeft > 0
    /\ Unlocked(buf_mutex)
    /\ \E l \in 0..MaxTracks : \E content \in Texts(t) :
          /\ line' = [line EXCEPT ![t] = l]
          /\ buf_lines' = IF l < Len(buf_lines)
                          THEN [buf_lines EXCEPT ![l + 1] = content]
                          ELSE buf_lines
    /\ updatesLeft' = updatesLeft - 1
    /\ tpc' = [tpc EXCEPT ![t] = "flush_lock"]
    /\ UNCHANGED <<state_lines, state_mutex, buf_mutex, termVars, regVars, total, up,
                   final_text, allocated, downloaderVars, pathVars>>

\* flush_line: self.inner.lock(), total, the test idx < total; safe_update
\* computes final_text and up
FlushLock(t) ==
    /\ tpc[t] = "flush_lock"
    /\ Unlocked(buf_mutex)
    /\ buf_mutex' = t
    /\ total' = [total EXCEPT ![t] = Len(buf_lines)]
    /\ IF line[t] < Len(buf_lines)
       THEN /\ final_text' = [final_text EXCEPT ![t] = FinalText(buf_lines[line[t] + 1])]
            /\ up' = [up EXCEPT ![t] = Up(Len(buf_lines), line[t])]
            /\ tpc' = [tpc EXCEPT ![t] = "wrap_off"]
       ELSE /\ tpc' = [tpc EXCEPT ![t] = "flush_ret"]
            /\ UNCHANGED <<final_text, up>>
    /\ UNCHANGED <<state_lines, state_mutex, buf_lines, termVars, regVars, line,
                   allocated, updatesLeft, downloaderVars, pathVars>>

\* safe_update: write!(out, "\x1B[?7l")
WrapOff(t) ==
    /\ tpc[t] = "wrap_off"
    /\ wrap' = FALSE
    /\ writer' = t
    /\ tpc' = [tpc EXCEPT ![t] = "up"]
    /\ UNCHANGED <<state_lines, state_mutex, buf_lines, buf_mutex, rows, cursor,
                   regVars, updVars, allocated, updatesLeft, downloaderVars, pathVars>>

\* safe_update: write!(out, "\x1B[{}A\r\x1B[2K", up): up, to the first column,
\* erase the row
CursorUp(t) ==
    /\ tpc[t] = "up"
    /\ cursor' = CursorUpBy(cursor, up[t])
    /\ rows' = [rows EXCEPT ![CursorUpBy(cursor, up[t])] = <<>>]
    /\ writer' = t
    /\ tpc' = [tpc EXCEPT ![t] = "text"]
    /\ UNCHANGED <<state_lines, state_mutex, buf_lines, buf_mutex, wrap,
                   regVars, updVars, allocated, updatesLeft, downloaderVars, pathVars>>

\* safe_update: write!(out, "{}", final_text).  Text wider than the terminal
\* runs over into the next row when auto-wrap is enabled, and piles up in the
\* last column when it is not.
WriteText(t) ==
    /\ tpc[t] = "text"
    /\ LET text == final_text[t]
       IN IF Len(text) <= TermWidth
          THEN /\ rows' = [rows EXCEPT ![cursor] = text]
               /\ UNCHANGED cursor
          ELSE IF wrap
          THEN /\ rows' = [rows EXCEPT
                             ![cursor] = SubSeq(text, 1, TermWidth),
                             ![CursorDownBy(cursor, 1)] =
                                 SubSeq(text, TermWidth + 1, Len(text))]
               /\ cursor' = CursorDownBy(cursor, 1)
          ELSE /\ rows' = [rows EXCEPT ![cursor] =
                             SubSeq(text, 1, TermWidth - 1) \o <<text[Len(text)]>>]
               /\ UNCHANGED cursor
    /\ writer' = t
    /\ tpc' = [tpc EXCEPT ![t] = "down"]
    /\ UNCHANGED <<state_lines, state_mutex, buf_lines, buf_mutex, wrap,
                   regVars, updVars, allocated, updatesLeft, downloaderVars, pathVars>>

\* safe_update: write!(out, "\x1B[{}B", up)
CursorDown(t) ==
    /\ tpc[t] = "down"
    /\ cursor' = CursorDownBy(cursor, up[t])
    /\ writer' = t
    /\ tpc' = [tpc EXCEPT ![t] = "wrap_on"]
    /\ UNCHANGED <<state_lines, state_mutex, buf_lines, buf_mutex, rows, wrap,
                   regVars, updVars, allocated, updatesLeft, downloaderVars, pathVars>>

\* safe_update: write!(out, "\x1B[?7h"); out.flush()
WrapOn(t) ==
    /\ tpc[t] = "wrap_on"
    /\ wrap' = TRUE
    /\ writer' = t
    /\ tpc' = [tpc EXCEPT ![t] = "flush_ret"]
    /\ UNCHANGED <<state_lines, state_mutex, buf_lines, buf_mutex, rows, cursor,
                   regVars, updVars, allocated, updatesLeft, downloaderVars, pathVars>>

\* flush_line returns, which unlocks the storage, and update() returns
FlushReturn(t) ==
    /\ tpc[t] = "flush_ret"
    /\ buf_mutex' = 0
    /\ tpc' = [tpc EXCEPT ![t] = "idle"]
    /\ line' = [line EXCEPT ![t] = 0]
    /\ total' = [total EXCEPT ![t] = 0]
    /\ up' = [up EXCEPT ![t] = 0]
    /\ final_text' = [final_text EXCEPT ![t] = <<>>]
    /\ UNCHANGED <<state_lines, state_mutex, buf_lines, termVars, regVars,
                   allocated, updatesLeft, downloaderVars, pathVars>>

\* One ProgressManager shared by the tasks; nothing is downloaded.
InitProgress == DownloaderIdle /\ PathInit /\ RendererNew

NextProgress ==
    \E t \in Tasks :
        \/ RegisterLock(t)
        \/ RegisterId(t)
        \/ RegisterIncr(t)
        \/ ResizeLock(t)
        \/ ResizeNewline(t)
        \/ ResizeExtend(t)
        \/ RegisterReturn(t)
        \/ Set(t)
        \/ FlushLock(t)
        \/ WrapOff(t)
        \/ CursorUp(t)
        \/ WriteText(t)
        \/ CursorDown(t)
        \/ WrapOn(t)
        \/ FlushReturn(t)

SpecProgress == InitProgress /\ [][NextProgress]_vars

\* ------------------------------------------------------------------ claims
\* Downloader p takes a step.
Steps(p) == pc'[p] # pc[p]

\* download() of Downloader p returns.
Returns(p) == pc[p] # "idle" /\ pc'[p] = "idle"

Streaming(p) == pc[p] = "stream"

\* The positions of an attempt that has not skipped.
TransferPcs ==
    {"measure", "send", "create_lock", "try_lock", "open_temp", "stream",
     "finalize_rename", "remove_lock"}

\* C1 (as claimed): whenever download() returns success, final_path exists and
\* neither temp_path nor lock_path does.
C1_SuccessLeavesOnlyFinal ==
    [][\A p \in Procs :
          Returns(p) /\ result'[p] = "ok" =>
              dir'.final # 0 /\ dir'.temp = 0 /\ dir'.lock = 0]_vars

\* C2 (as claimed): at most one Downloader is in its streaming phase.
C2_OneStreamer == Cardinality({p \in Procs : Streaming(p)}) <= 1

\* C3: once an invocation of a lone Downloader returns success, after any
\* number of invocations that were cut short or failed, final_path holds the
\* remote resource byte for byte.
C3_ResumptionLaw ==
    \A p \in Procs :
        pc[p] = "idle" /\ result[p] = "ok" =>
            Exists("final") /\ Content("final") = Remote

\* C3 witness: a later invocation appended only the missing bytes and returned
\* success.
C3_Witness ==
    /\ pc[1] = "idle" /\ result[1] = "ok"
    /\ invLeft < MaxInvocations - 1
    /\ appended[1] > 0 /\ appended[1] < RemoteLen
    /\ Content("final") = Remote

\* C4 (as claimed): of two concurrent Downloaders on one final_path exactly one
\* transfers, the other returns success without transferring, and final_path
\* then holds the remote resource.
C4_ExactlyOneTransfers ==
    (/\ ~sequential /\ serverSized
     /\ invLeft = MaxInvocations - 2
     /\ \A p \in Procs : pc[p] = "idle" /\ result[p] = "ok")
    => /\ Cardinality({p \in Procs : appended[p] > 0}) = 1
       /\ Exists("final") /\ Content("final") = Remote

\* Downloader p creates or replaces final_path: the finalization rename or the
\* rename of the 416 arm.
PutsFinal(p) ==
    \/ pc[p] = "finalize_rename" /\ pc'[p] = "remove_lock"
    \/ pc[p] = "rns_rename" /\ pc'[p] = "idle" /\ Exists("temp")

\* C5 (as claimed): every time a Downloader creates or replaces final_path the
\* file has exactly the remote length.
C5_FinalNeverPartial ==
    [][\A p \in Procs : PutsFinal(p) => Len(data'[dir'.final]) = RemoteLen]_vars

C7_AlreadyComplete ==
    [][\A p \in Procs :
          /\ (pc[p] = "skip_meta" /\ Steps(p)) =>
                (via'[p] = "skip" <=>
                     Exists("final") /\ FileLen("final") = RemoteLen)
          /\ (pc[p] \in {"skip_final", "skip_temp", "probe", "skip_meta"} /\ Steps(p)) =>
                UNCHANGED <<dir, data, appended, requests>>
          /\ (pc[p] = "ret" /\ via[p] = "skip" /\ Steps(p)) =>
                /\ pc'[p] = "idle" /\ result'[p] = "ok"
                /\ probes[p] = 1 /\ requests[p] = 0
                /\ UNCHANGED <<dir, data, appended>>]_vars

\* C7 witness: download() has returned success by the skip, final_path complete.
C7_Witness ==
    \E p \in Procs :
        /\ pc[p] = "idle" /\ result[p] = "ok" /\ via[p] = "skip"
        /\ appended[p] = 0
        /\ Exists("final") /\ Content("final") = Remote /\ ~Exists("temp")

C9_RangeNotSatisfiable ==
    [][\A p \in Procs :
          /\ (pc[p] = "ret" /\ res[p] = "RangeNotSatisfiable" /\ Steps(p)) =>
                pc'[p] = "rns_exists" /\ UNCHANGED <<sleeps, attempt, dir, data>>
          /\ (pc[p] = "rns_exists" /\ Steps(p)) =>
                /\ UNCHANGED <<dir, data>>
                /\ IF Exists("temp")
                   THEN pc'[p] = "rns_rename"
                   ELSE pc'[p] = "idle" /\ result'[p] = "ok"
          /\ (pc[p] = "rns_rename" /\ Steps(p)) =>
                /\ pc'[p] = "idle" /\ result'[p] = "ok"
                /\ dir'.final # 0 /\ dir'.temp = 0
                /\ Exists("temp") => data'[dir'.final] = Content("temp")]_vars

\* C9 witness: download() has returned success by the 416 arm and final_path
\* is there.
C9_Witness ==
    \E p \in Procs :
        /\ pc[p] = "idle" /\ result[p] = "ok" /\ via[p] = "rns"
        /\ Exists("final") /\ ~Exists("temp")

\* C10 (as claimed): the k-th sleep of a download() call lasts 2^k seconds.
C10_DelaysFromTwo ==
    \A p \in Procs : \A k \in 1..Len(sleeps[p]) : sleeps[p][k] = 2 ^ k

\* C11 (as claimed): a download() call whose every attempt fails with a
\* retryable error has slept MAX_RETRIES times when it returns the error.
C11_SleepsMaxRetries ==
    [][\A p \in Procs :
          (Returns(p) /\ result'[p] = "err") => Len(sleeps[p]) = MAX_RETRIES]_vars

\* The named files of the directory are the same before and after the step.
SameFiles ==
    \A n \in DOMAIN dir :
        /\ (dir'[n] # 0) = (dir[n] # 0)
        /\ dir[n] # 0 => data'[dir'[n]] = data[dir[n]]

\* C12: try_lock_exclusive fails exactly when somebody holds the lock; the
\* attempt then returns Ok at once, leaving every file, every lock and its
\* byte count as they were, and download() returns success without a retry,
\* lock_path still being there.
C12_ContentionIsNoOp ==
    [][\A p \in Procs :
          /\ (pc[p] = "try_lock" /\ Steps(p)) =>
                /\ (flock[lock_file[p]] # 0) <=> (via'[p] = "contended")
                /\ flock[lock_file[p]] # 0 =>
                      /\ pc'[p] = "ret" /\ res'[p] = "Ok"
                      /\ SameFiles
                      /\ UNCHANGED <<flock, appended, sleeps>>
          /\ (pc[p] = "ret" /\ via[p] = "contended" /\ Steps(p)) =>
                /\ pc'[p] = "idle" /\ result'[p] = "ok"
                /\ SameFiles
                /\ UNCHANGED appended
                /\ \A q \in Procs \ {p} : \A i \in InoIds :
                      flock[i] = q => \E j \in InoIds : flock'[j] = q]_vars

\* C12 witness: download() has returned success from a contended attempt and
\* lock_path is still there.
C12_Witness ==
    \E p \in Procs :
        /\ pc[p] = "idle" /\ result[p] = "ok" /\ via[p] = "contended"
        /\ Exists("lock")

\* The Downloader holds the exclusive lock through its open lock file.
HoldsLock(p) == lock_file[p] # 0 /\ flock[lock_file[p]] = p

\* The step writes, renames or deletes final_path or temp_path.
Touches(p) ==
    \/ pc[p] = "skip_rename" /\ pc'[p] = "measure"
    \/ pc[p] = "stream" /\ data' # data
    \/ pc[p] = "finalize_rename" /\ pc'[p] = "remove_lock"
    \/ pc[p] = "rns_rename" /\ pc'[p] = "idle" /\ Exists("temp")

\* C13 (as claimed): a Downloader that writes, renames or deletes final_path
\* or temp_path holds the exclusive lock at that step.
C13_OwnedByLockHolder ==
    [][\A p \in Procs : Touches(p) => HoldsLock(p)]_vars

\* C14: during a download() call no step deletes or truncates temp_path (it
\* only grows, or becomes final_path with every byte), and when the call
\* returns failure after its last attempt temp_path is there with at least the
\* bytes the call appended, a prefix of the resource to resume from.
C14_ExhaustionKeepsPartial ==
    [][\A p \in Procs :
          /\ (pc[p] # "idle" /\ Exists("temp")) =>
                \/ dir'.temp # 0 /\ IsPrefix(Content("temp"), data'[dir'.temp])
                \/ /\ pc[p] \in {"finalize_rename", "rns_rename"}
                   /\ dir'.temp = 0 /\ dir'.final # 0
                   /\ data'[dir'.final] = Content("temp")
          /\ (Returns(p) /\ result'[p] = "err" /\ appended[p] > 0) =>
                /\ LastAttempt(attempt[p])
                /\ dir'.temp # 0
                /\ Len(data'[dir'.temp]) >= appended[p]
                /\ IsPrefix(data'[dir'.temp], Remote)]_vars

\* C14 witness: download() has returned failure after its last attempt and
\* temp_path holds the bytes the call appended.
C14_Witness ==
    \E p \in Procs :
        /\ pc[p] = "idle" /\ result[p] = "err" /\ appended[p] > 0
        /\ Exists("temp") /\ FileLen("temp") = appended[p]

\* The task takes a step.
Acts(t) == tpc'[t] # tpc[t] \/ printed'[t] # printed[t]

\* The places of safe_update: the task is about to write one piece of its
\* sequence.
SequencePcs == {"wrap_off", "up", "text", "down", "wrap_on"}

\* Every row but row r keeps its text.
OtherRowsKept(r) == \A q \in ScreenRows \ {r} : rows'[q] = rows[q]

\* C16: an update whose line is below the number of tracks finds the cursor on
\* the bottom row (row total), goes up total - line rows to row line, rewrites
\* that row and no other with its text, and puts the cursor back on row
\* total; meanwhile no other task moves the cursor, changes a row or adds a
\* track.
C16_UpdateRewritesOneRow ==
    [][\A t \in Tasks :
          /\ (tpc[t] \in SequencePcs /\ ~Acts(t)) =>
                UNCHANGED <<rows, cursor>> /\ Len(buf_lines') = Len(buf_lines)
          /\ (tpc[t] = "wrap_off" /\ Acts(t)) =>
                /\ line[t] < total[t] /\ total[t] = Len(buf_lines)
                /\ cursor = total[t]
                /\ UNCHANGED <<rows, cursor>>
          /\ (tpc[t] = "up" /\ Acts(t)) =>
                /\ cursor - cursor' = total[t] - line[t]
                /\ cursor' = line[t]
                /\ OtherRowsKept(line[t])
          /\ (tpc[t] = "text" /\ Acts(t)) =>
                /\ cursor' = line[t]
                /\ rows'[line[t]] = final_text[t]
                /\ OtherRowsKept(line[t])
          /\ (tpc[t] = "down" /\ Acts(t)) =>
                /\ cursor' = total[t]
                /\ UNCHANGED rows
          /\ (tpc[t] = "wrap_on" /\ Acts(t)) =>
                UNCHANGED <<rows, cursor>>]_vars

\* C16 witness: with two tracks, an update of track 0 has written its whole
\* sequence: row 0 holds its text, row 1 still holds the other track's text,
\* the cursor is back on row 2.
C16_Witness ==
    \E t \in Tasks :
        /\ tpc[t] = "flush_ret" /\ line[t] = 0 /\ total[t] = 2
        /\ final_text[t] # <<>> /\ rows[0] = final_text[t]
        /\ rows[1] # <<>> /\ rows[1] # rows[0]
        /\ cursor = 2

\* C17: while a task is inside its update sequence (wrap disabled, wrap not
\* yet enabled again), the last write to stdout is its own: nothing of another
\* update or of register's newlines has got in.
C17_WritesSerialized ==
    \A t \in Tasks :
        tpc[t] \in {"up", "text", "down", "wrap_on"} => writer = t /\ buf_mutex = t

\* C17 witness: a task is in the middle of its update sequence while the other
\* task waits to write: to flush its own update, or to print the newline of a
\* track it has allocated.
C17_Witness ==
    \E t \in Tasks : \E o \in Tasks \ {t} :
        /\ tpc[t] = "text"
        /\ tpc[o] \in {"flush_lock", "resize_lock"}
        /\ tpc[o] = "resize_lock" => new_total[o] > Len(buf_lines)

\* C18: the n-th allocation takes id n - 1 (so no id is taken twice), neither
\* the track count nor the track storage ever shrinks, register() returns id
\* only when the storage has more than id rows, and flush_line does not
\* ignore a line the storage has.
C18_IdsAreInsertionIndices ==
    [][/\ \A n \in 1..Len(allocated') : allocated'[n] = n - 1
       /\ state_lines' >= state_lines
       /\ Len(buf_lines') >= Len(buf_lines)
       /\ \A t \in Tasks :
             /\ (tpc[t] = "reg_ret" /\ Acts(t)) => Len(buf_lines) > id[t]
             /\ (tpc[t] = "flush_lock" /\ Acts(t) /\ line[t] < Len(buf_lines)) =>
                   tpc'[t] = "wrap_off"]_vars

\* C18 witness: one task has taken id 0 and not yet resized the storage; the
\* other has since taken id 1 and returned from register(), the storage
\* having two rows.
C18_Witness ==
    \E t \in Tasks : \E o \in Tasks \ {t} :
        /\ tpc[t] = "resize_lock" /\ id[t] = 0
        /\ allocated = <<0, 1>>
        /\ tpc[o] = "idle" /\ Len(buf_lines) = 2

\* C19 (as claimed): whenever temp_path exists, its content is a prefix of the
\* remote resource.
C19_TempIsPrefix == Exists("temp") => IsPrefix(Content("temp"), Remote)

\* The places of try_download where the Downloader holds the lock it took.
LockPcs == {"open_temp", "stream", "finalize_rename", "remove_lock", "ret"}

\* C20: a Downloader holds a lock only inside try_download, between its
\* try_lock_exclusive and its return, and through the lock file it has open:
\* once try_download has returned, with success or any error, it holds none.
\* A lone Downloader is therefore never refused the lock: no attempt of it
\* ends as "another instance is downloading".
C20_LockReleasedAtReturn ==
    /\ \A p \in Procs : \A i \in InoIds :
          flock[i] = p => pc[p] \in LockPcs /\ lock_file[p] = i
    /\ sequential => \A p \in Procs : via[p] # "contended"

\* C20 witness: a retry attempt has taken the lock again, temp_path being
\* there from an attempt that held the lock before.
C20_Witness ==
    \E p \in Procs :
        /\ attempt[p] > 0 /\ pc[p] = "open_temp"
        /\ flock[lock_file[p]] = p /\ dir.lock = lock_file[p]
        /\ Exists("temp") /\ appended[p] > 0

\* C15 (as claimed): temp_path is final_path with ".part" appended, whatever
\* the file name.
C15_TempIsFinalDotPart ==
    \A p \in Procs :
        staging[p] # <<>> => staging[p] = output_path[p] \o <<".">> \o Part

====
